---- MODULE Spec2Model ----
(***************************************************************************)
(* Model of the moderation platform's decision logic:                      *)
(*   src/src/app/api/content-moderation/route.ts  (rules + classifier)     *)
(*   src/src/app/api/moderate/route.ts            (classifier only)        *)
(*   src/src/app/api/moderation/rules/route.ts    (rule administration)    *)
(*   src/src/app/api/token/route.ts               (token issuance)         *)
(*   src/src/app/api/clients/[id]/route.ts        (client administration)  *)
(*   src/src/app/api/stats/daily/route.ts         (daily statistics)       *)
(* Strings are sequences of one-character strings.  Classifier scores are  *)
(* hundredths (0.8 is 80, 0.5 is 50).  Time is in seconds, as in the exp   *)
(* claim of a JWT.                                                         *)
(***************************************************************************)
EXTENDS Integers, Sequences, FiniteSets, TLC

VARIABLES
    env,          \* which module-level clients/secrets are configured
    rules,        \* table custom_moderation_rules, oldest row first
    req,          \* the request being handled: header, token, body
    content,      \* the request's content field
    pc,           \* where the handler is suspended
    fetched,      \* answer of the rules select, as seen by the handler
    outcome,      \* { actionOverride, ruleMatched } of applyCustomRules
    modResult,    \* moderationResult
    sev,          \* result of determineActionAndSeverity (content-moderation)
    sevModerate,  \* result of determineActionAndSeverity (moderate)
    response,     \* the HTTP response
    logs,         \* table moderation_logs
    calls,        \* what the request in flight has done so far
    now,          \* the clock, in seconds
    clients,      \* table api_clients
    tokenReq,     \* the last request to POST /api/token
    tokenResponse,\* the response to it
    adminReq,     \* the last administration request and what it did to the database
    adminResponse,\* the last response of the rules endpoint
    nextId,       \* the id the next inserted rule gets
    dailyStats    \* table daily_stats

tokenVars == <<now, clients, tokenReq, tokenResponse>>

adminVars == <<adminReq, adminResponse, nextId, dailyStats>>

vars == <<env, rules, req, content, pc, fetched, outcome, modResult, sev, sevModerate, response,
          logs, calls, tokenVars, adminVars>>

\* ---------------------------------------------------------------- bounds
MaxRules == 3
MaxTermLen == 2
MaxTextLen == 3
MaxHttpRules == 2
MaxLogs == 1
MaxAdminRules == 1
MaxRuleId == 2
MaxClock == 3601
MaxStatLogs == 3

\* JavaScript null / undefined for string-valued fields.
NULL == "null"

\* ------------------------------------------------------- string helpers
\* String.prototype.toLowerCase on one character.
LowerChar(c) ==
    CASE c = "A" -> "a"
      [] c = "F" -> "f"
      [] c = "O" -> "o"
      [] c = "S" -> "s"
      [] OTHER -> c

ToLowerCase(s) == [i \in 1..Len(s) |-> LowerChar(s[i])]

\* String.prototype.includes
Includes(s, t) ==
    \E i \in 0..(Len(s) - Len(t)) : SubSeq(s, i + 1, i + Len(t)) = t

\* --------------------------------------------------------------- RegExp
\* A compiled pattern is a sequence of atoms, each consuming one character:
\*   lit c  - the character c          cls "s" - \s (white space)
\*                                     cls "S" - \S (not white space)
\* An unescaped "(" that is never closed and a trailing "\" are SyntaxErrors.
SyntaxError == <<[kind |-> "SyntaxError", ch |-> ""]>>

RECURSIVE ParseFrom(_, _)
ParseFrom(p, i) ==
    IF i > Len(p) THEN <<>>
    ELSE IF p[i] = "\\"
         THEN IF i = Len(p) THEN SyntaxError
              ELSE LET rest == ParseFrom(p, i + 2)
                       atom == IF p[i + 1] \in {"s", "S"}
                               THEN [kind |-> "cls", ch |-> p[i + 1]]
                               ELSE [kind |-> "lit", ch |-> p[i + 1]]
                   IN IF rest = SyntaxError THEN SyntaxError ELSE <<atom>> \o rest
         ELSE IF p[i] = "(" THEN SyntaxError
         ELSE LET rest == ParseFrom(p, i + 1)
              IN IF rest = SyntaxError THEN SyntaxError
                 ELSE <<[kind |-> "lit", ch |-> p[i]]>> \o rest

\* new RegExp(pattern, flags): the atoms, or SyntaxError when it throws.
NewRegExp(pattern) == ParseFrom(pattern, 1)

RegExpCompiles(pattern) == NewRegExp(pattern) # SyntaxError

IsWhiteSpace(c) == c = " "

AtomMatches(atom, c, ignoreCase) ==
    CASE atom.kind = "cls" /\ atom.ch = "s" -> IsWhiteSpace(c)
      [] atom.kind = "cls" /\ atom.ch = "S" -> ~IsWhiteSpace(c)
      [] OTHER -> IF ignoreCase THEN LowerChar(atom.ch) = LowerChar(c)
                  ELSE atom.ch = c

\* RegExp.prototype.test without the g flag: a match anywhere in s.
RegExpTest(atoms, ignoreCase, s) ==
    \E i \in 0..(Len(s) - Len(atoms)) :
        \A k \in 1..Len(atoms) : AtomMatches(atoms[k], s[i + k], ignoreCase)

\* ---------------------------------------------------------- custom rules
NoRule == [id |-> 0, term |-> <<>>, type |-> "none", action_override |-> NULL,
           is_regex |-> FALSE, case_sensitive |-> FALSE]

NoOverride == [actionOverride |-> NULL, ruleMatched |-> NoRule]

\* JavaScript `a || b` on a string-or-null value.
OrElse(a, b) == IF a = NULL \/ a = "" THEN b ELSE a

\* RuleEval comparing against the lower-cased content whatever case_sensitive says.
RuleEvalLowerCasedContent(rule, text) ==
    LET termToMatch == IF rule.case_sensitive THEN rule.term ELSE ToLowerCase(rule.term)
        contentToCompare == ToLowerCase(text)
    IN IF rule.is_regex
       THEN IF ~RegExpCompiles(termToMatch) THEN "error"
            ELSE IF RegExpTest(NewRegExp(termToMatch), ~rule.case_sensitive, contentToCompare)
                 THEN "match" ELSE "nomatch"
       ELSE IF Includes(contentToCompare, termToMatch) THEN "match" ELSE "nomatch"

\* Body of the for loop up to isMatch: "match", "nomatch" or "error"
\* (the catch around new RegExp, which continues with the next rule).
RuleEval(rule, text) ==
    LET termToMatch == IF rule.case_sensitive THEN rule.term ELSE ToLowerCase(rule.term)
        contentToCompare == IF rule.case_sensitive THEN text ELSE ToLowerCase(text)
    IN IF rule.is_regex
       THEN IF ~RegExpCompiles(termToMatch) THEN "error"
            ELSE IF RegExpTest(NewRegExp(termToMatch), ~rule.case_sensitive, contentToCompare)
                 THEN "match" ELSE "nomatch"
       ELSE IF Includes(contentToCompare, termToMatch) THEN "match" ELSE "nomatch"

\* The scan returning at the first matching rule of either type.
RECURSIVE ScanRulesFirstMatchWins(_, _, _, _)
ScanRulesFirstMatchWins(list, text, i, blacklistMatch) ==
    IF i > Len(list) THEN NoOverride
    ELSE LET rule == list[i]
         IN IF RuleEval(rule, text) = "match"
            THEN IF rule.type = "whitelist"
                 THEN [actionOverride |-> OrElse(rule.action_override, "approve"),
                       ruleMatched |-> rule]
                 ELSE [actionOverride |-> OrElse(rule.action_override, "block"),
                       ruleMatched |-> rule]
            ELSE ScanRulesFirstMatchWins(list, text, i + 1, blacklistMatch)

\* The scan without the inner try/catch: a RegExp SyntaxError reaches the outer
\* catch, which returns no override.
RECURSIVE ScanRulesAbortOnError(_, _, _, _)
ScanRulesAbortOnError(list, text, i, blacklistMatch) ==
    IF i > Len(list)
    THEN IF blacklistMatch # NoRule
         THEN [actionOverride |-> OrElse(blacklistMatch.action_override, "block"),
               ruleMatched |-> blacklistMatch]
         ELSE NoOverride
    ELSE LET rule == list[i]
             ev == RuleEval(rule, text)
         IN IF ev = "error" THEN NoOverride
            ELSE IF ev = "match"
                 THEN IF rule.type = "whitelist"
                      THEN [actionOverride |-> OrElse(rule.action_override, "approve"),
                            ruleMatched |-> rule]
                      ELSE ScanRulesAbortOnError(list, text, i + 1, rule)
                 ELSE ScanRulesAbortOnError(list, text, i + 1, blacklistMatch)

RECURSIVE ScanRules(_, _, _, _)
ScanRules(list, text, i, blacklistMatch) ==
    IF i > Len(list)
    THEN IF blacklistMatch # NoRule
         THEN [actionOverride |-> OrElse(blacklistMatch.action_override, "block"),
               ruleMatched |-> blacklistMatch]
         ELSE NoOverride
    ELSE LET rule == list[i]
             ev == RuleEval(rule, text)
         IN IF ev = "error" THEN ScanRules(list, text, i + 1, blacklistMatch)
            ELSE IF ev = "match"
                 THEN IF rule.type = "whitelist"
                      THEN [actionOverride |-> OrElse(rule.action_override, "approve"),
                            ruleMatched |-> rule]
                      ELSE IF rule.type = "blacklist"
                           THEN ScanRules(list, text, i + 1, rule)
                           ELSE ScanRules(list, text, i + 1, blacklistMatch)
                 ELSE ScanRules(list, text, i + 1, blacklistMatch)

\* applyCustomRules after the select has answered with `list`.
applyCustomRules(list, text) ==
    IF Len(list) = 0 THEN NoOverride ELSE ScanRules(list, text, 1, NoRule)

\* ------------------------------------------------------------ severity
highSeverityThreshold == 80
mediumSeverityThreshold == 50

Categories == {"sexual", "hate", "harassment", "violence", "self-harm"}

EmptyMap == [c \in {} |-> 0]

\* A JavaScript value that is either undefined or an object of scores.
Undefined == [present |-> FALSE, map |-> EmptyMap]
Obj(m) == [present |-> TRUE, map |-> m]

GtOrEqual(scores, c, t) == c \in DOMAIN scores /\ scores[c] >= t

\* scores.c > t, where a missing key reads as undefined and undefined > t is false.
Gt(scores, c, t) == c \in DOMAIN scores /\ scores[c] > t

HighTierWithHarassment == {"sexual", "hate", "harassment", "violence", "self-harm"}

\* The categories compared with each threshold in content-moderation/route.ts.
HighTier == {"sexual", "hate", "violence", "self-harm"}

MediumTier == {"sexual", "hate", "harassment", "violence", "self-harm"}

\* The categories compared with each threshold in moderate/route.ts.
HighTierModerate == {"sexual", "hate", "violence", "self-harm"}
MediumTierModerate == {"sexual", "hate", "violence", "self-harm"}

AnyAbove(scores, tier, t) == \E c \in tier : Gt(scores, c, t)

\* content-moderation/route.ts
determineActionAndSeverity(moderationResult) ==
    LET flagged == moderationResult.flagged
        scores == moderationResult.category_scores
    IN IF flagged
       THEN IF scores.present
            THEN IF AnyAbove(scores.map, HighTier, highSeverityThreshold)
                 THEN [action |-> flagged, severity |-> "high", determinedAction |-> "block"]
                 ELSE IF AnyAbove(scores.map, MediumTier, mediumSeverityThreshold)
                      THEN [action |-> flagged, severity |-> "medium",
                            determinedAction |-> "manual_review"]
                      ELSE [action |-> flagged, severity |-> "low", determinedAction |-> "warn"]
            ELSE [action |-> flagged, severity |-> "unknown",
                  determinedAction |-> "flagged_unknown_severity"]
       ELSE [action |-> flagged, severity |-> "low", determinedAction |-> "approved"]

\* moderate/route.ts: reads moderationResult.scores; reading a property of
\* undefined throws a TypeError.
TypeError == [action |-> "TypeError", severity |-> "TypeError"]

determineActionAndSeverityModerate(moderationResult) ==
    IF moderationResult.flagged
    THEN LET scores == moderationResult.scores
         IN IF ~scores.present THEN TypeError
            ELSE IF AnyAbove(scores.map, HighTierModerate, highSeverityThreshold)
                 THEN [action |-> "flagged", severity |-> "high"]
                 ELSE IF AnyAbove(scores.map, MediumTierModerate, mediumSeverityThreshold)
                      THEN [action |-> "flagged", severity |-> "medium"]
                      ELSE [action |-> "flagged", severity |-> "low"]
    ELSE [action |-> "approved", severity |-> "low"]

\* ------------------------------------------------------------------ JWT
\* jwt.sign(..., { expiresIn: '1h' }) and expires_in: 3600
expiresIn == 3600

\* A token: whether its signature verifies with JWT_SECRET, and its payload.
NoToken == [signed |-> FALSE, client_id |-> NULL, scope |-> NULL, iat |-> 0, exp |-> 0]

\* jwt.sign({ client_id, scope }, jwtSecret, { expiresIn: '1h' }) at time t.
JwtSign(client_id, scope, t) ==
    [signed |-> TRUE, client_id |-> client_id, scope |-> scope, iat |-> t,
     exp |-> t + expiresIn]

\* A verification that still accepts a token at its exp.
JwtVerifyInclusive(token, t) == token.signed /\ t <= token.exp

\* jwt.verify(token, jwtSecret) returns the payload (and does not throw) at time t.
JwtVerify(token, t) == token.signed /\ t < token.exp

\* ------------------------------------------------- values before a request
NoReq == [path |-> "none", authHeader |-> "none", token |-> NoToken, json |-> FALSE]
\* What a request has done so far: when it arrived, calls of
\* openai.moderations.create, selects on custom_moderation_rules, whether the
\* classifier call threw, rows inserted into moderation_logs.
NoCalls ==
    [at |-> 0, classifier |-> 0, store |-> 0, failed |-> FALSE, attempts |-> 0, inserts |-> 0]

Arrived(t) == [NoCalls EXCEPT !.at = t]

\* No administration request yet. statements counts the database statements the
\* handler issued, removed the rows a delete removed.
NoRuleBody ==
    [term |-> <<>>, type |-> "none", action_override |-> NULL,
     is_regex |-> "undefined", case_sensitive |-> "undefined"]

NoAdminReq ==
    [op |-> "none", authHeader |-> <<>>, json |-> FALSE,
     body |-> NoRuleBody, id |-> 0, client |-> NULL, date |-> NULL,
     statements |-> 0, removed |-> 0]

NoTokenReq == [json |-> FALSE, client_id |-> NULL, client_secret |-> NULL,
               grant_type |-> "undefined"]
NoContent == <<>>
NoFetch == [error |-> "none", data |-> <<>>]
NoResult == [flagged |-> FALSE, categories |-> {}, category_scores |-> Undefined,
             scores |-> Undefined]
\* let determinedAction = 'unknown'; let moderationSeverity = 'unknown';
NoSev == [action |-> FALSE, severity |-> "unknown", determinedAction |-> "unknown"]
NoSevModerate == [action |-> "unknown", severity |-> "unknown"]
NoResponse == [status |-> 0]

\* The platform state that a specification of a pure function leaves alone.
Quiet ==
    /\ calls = NoCalls
    /\ now = 0
    /\ clients = {}
    /\ tokenReq = NoTokenReq
    /\ tokenResponse = NoResponse
    /\ adminReq = NoAdminReq
    /\ adminResponse = NoResponse
    /\ nextId = Len(rules) + 1
    /\ dailyStats = <<>>

\* JavaScript truthiness of a string-or-null value.
Truthy(a) == a # NULL /\ a # ""

\* ------------------------------------------------------------ input sets
Strings(chars, n) == UNION {[1..k -> chars] : k \in 1..n}

Row(i, r) == [id |-> i, term |-> r.term, type |-> r.type,
              action_override |-> r.action_override, is_regex |-> r.is_regex,
              case_sensitive |-> r.case_sensitive]

\* t is a table of at most n rows drawn from `set`; the id of a row is its position.
IsTableOf(t, set, n) ==
    \E k \in 0..n : \E l \in [1..k -> set] : t = [i \in 1..k |-> Row(i, l[i])]

\* Rules for the scan: a literal, the same term as a regex, a regex that does
\* not compile; both types; no override or one.
ScanRuleSet ==
    {[term |-> t.term, type |-> ty, action_override |-> ao,
      is_regex |-> t.is_regex, case_sensitive |-> FALSE] :
        t \in {[term |-> <<"a">>, is_regex |-> FALSE],
               [term |-> <<"a">>, is_regex |-> TRUE],
               [term |-> <<"(">>, is_regex |-> TRUE]},
        ty \in {"blacklist", "whitelist"},
        ao \in {NULL, "warn", "manual_review"}}

ScanTexts == {<<"a">>, <<"b">>}

\* Rules and texts for matching one rule.
TermChars == {"a", "A", "\\", "s", "S", "("}
TextChars == {"a", "A", " "}
ScenarioTerm == <<"f", "o", "o">>
ScenarioText == <<"t", "h", "i", "s", " ", "h", "a", "s", " ", "F", "O", "O", " ",
                  "i", "n", " ", "i", "t">>

MatchRuleSet ==
    {[term |-> t, type |-> "blacklist", action_override |-> NULL,
      is_regex |-> re, case_sensitive |-> cs] :
        t \in Strings(TermChars, MaxTermLen) \cup {ScenarioTerm},
        re \in BOOLEAN, cs \in BOOLEAN}

MatchTexts == Strings(TextChars, MaxTextLen) \cup {ScenarioText}

\* Classifier results: every partial score mapping over the five categories.
ScoreValues == {0, 50, 51, 80, 81}

ScoreMaps == UNION {[d -> ScoreValues] : d \in SUBSET Categories}

ClassifierResults ==
    {[flagged |-> f, categories |-> {}, category_scores |-> cs, scores |-> sc] :
        f \in BOOLEAN,
        cs \in {Undefined} \cup {Obj(m) : m \in ScoreMaps},
        sc \in {Undefined}}
    \cup
    {[flagged |-> f, categories |-> {}, category_scores |-> Undefined, scores |-> sc] :
        f \in BOOLEAN,
        sc \in {Obj(m) : m \in ScoreMaps}}

\* ---------------------------------------------- applyCustomRules on its own
InitScan ==
    /\ env = [supabase |-> TRUE, openai |-> TRUE, jwtSecret |-> TRUE, masterApiKey |-> <<"K">>]
    /\ IsTableOf(rules, ScanRuleSet, MaxRules)
    /\ content \in ScanTexts
    /\ req = NoReq
    /\ pc = "input"
    /\ fetched = NoFetch
    /\ outcome = NoOverride
    /\ modResult = NoResult
    /\ sev = NoSev
    /\ sevModerate = NoSevModerate
    /\ response = NoResponse
    /\ logs = <<>>
    /\ Quiet

InitMatch ==
    /\ env = [supabase |-> TRUE, openai |-> TRUE, jwtSecret |-> TRUE, masterApiKey |-> <<"K">>]
    /\ \E r \in MatchRuleSet : rules = <<Row(1, r)>>
    /\ content \in MatchTexts
    /\ req = NoReq
    /\ pc = "input"
    /\ fetched = NoFetch
    /\ outcome = NoOverride
    /\ modResult = NoResult
    /\ sev = NoSev
    /\ sevModerate = NoSevModerate
    /\ response = NoResponse
    /\ logs = <<>>
    /\ Quiet

\* const { actionOverride, ruleMatched } = await applyCustomRules(content)
\* with the select answering the whole table.
ApplyRules ==
    /\ pc = "input"
    /\ fetched' = [error |-> "none", data |-> rules]
    /\ outcome' = applyCustomRules(rules, content)
    /\ pc' = "output"
    /\ UNCHANGED <<env, rules, req, content, modResult, sev, sevModerate, response, logs,
                   calls, tokenVars, adminVars>>

NextScan == ApplyRules

SpecScan == InitScan /\ [][NextScan]_vars

NextMatch == ApplyRules

SpecMatch == InitMatch /\ [][NextMatch]_vars

\* ------------------------------------- determineActionAndSeverity on its own
InitSeverity ==
    /\ env = [supabase |-> TRUE, openai |-> TRUE, jwtSecret |-> TRUE, masterApiKey |-> <<"K">>]
    /\ rules = <<>>
    /\ content = NoContent
    /\ req = NoReq
    /\ pc = "input"
    /\ fetched = NoFetch
    /\ outcome = NoOverride
    /\ modResult \in ClassifierResults
    /\ sev = NoSev
    /\ sevModerate = NoSevModerate
    /\ response = NoResponse
    /\ logs = <<>>
    /\ Quiet

Classify ==
    /\ pc = "input"
    /\ sev' = determineActionAndSeverity(modResult)
    /\ sevModerate' = determineActionAndSeverityModerate(modResult)
    /\ pc' = "output"
    /\ UNCHANGED <<env, rules, req, content, fetched, outcome, modResult, response, logs,
                   calls, tokenVars, adminVars>>

NextSeverity == Classify

SpecSeverity == InitSeverity /\ [][NextSeverity]_vars

\* ------------------------------------------ POST /api/content-moderation
HttpRuleSet ==
    {[term |-> <<"a">>, type |-> "blacklist", action_override |-> NULL,
      is_regex |-> FALSE, case_sensitive |-> FALSE],
     [term |-> <<"a">>, type |-> "whitelist", action_override |-> NULL,
      is_regex |-> FALSE, case_sensitive |-> FALSE],
     [term |-> <<"b">>, type |-> "whitelist", action_override |-> "warn",
      is_regex |-> TRUE, case_sensitive |-> TRUE],
     [term |-> <<"b">>, type |-> "blacklist", action_override |-> "approve",
      is_regex |-> FALSE, case_sensitive |-> FALSE]}

HttpContents == {NoContent, <<"a">>, <<"b">>}

\* Tokens presented at time expiresIn: one issued a second ago, one issued at
\* time 0 (it expires now), one whose signature does not verify.
HttpTokens ==
    {JwtSign("c1", "moderate_content", 1),
     JwtSign("c1", "moderate_content", 0),
     [JwtSign("c1", "moderate_content", 1) EXCEPT !.signed = FALSE]}

Paths == {"/api/content-moderation", "/api/moderate"}

\* Requests without a bearer token, with a token that does not verify, and
\* with a good token, with a body that is JSON; and a request of each of these
\* kinds with a body that is not.
HttpRequests ==
    [path : Paths, authHeader : {"missing", "notBearer"}, token : {NoToken}, json : {TRUE}]
    \cup
    [path : Paths, authHeader : {"bearer"}, token : HttpTokens, json : {TRUE}]
    \cup
    [path : Paths, authHeader : {"missing"}, token : {NoToken}, json : {FALSE}]
    \cup
    [path : Paths, authHeader : {"bearer"},
     token : {JwtSign("c1", "moderate_content", 1),
              [JwtSign("c1", "moderate_content", 1) EXCEPT !.signed = FALSE]},
     json : {FALSE}]

\* The contents a handler can tell apart: the body is parsed after the header,
\* the secret and the token were checked, so a request rejected by these has no
\* content for the handler.
ContentsRead(r) ==
    IF r.authHeader = "bearer" /\ env.jwtSecret /\ JwtVerify(r.token, now) /\ r.json
    THEN HttpContents ELSE {NoContent}

HttpClassifierResults ==
    {[flagged |-> FALSE, categories |-> {}, category_scores |-> Obj([c \in {"hate"} |-> 0]),
      scores |-> Undefined],
     [flagged |-> TRUE, categories |-> {"hate"},
      category_scores |-> Obj([c \in {"hate"} |-> 81]), scores |-> Undefined],
     [flagged |-> TRUE, categories |-> {"harassment"},
      category_scores |-> Obj([c \in {"harassment"} |-> 51]), scores |-> Undefined],
     [flagged |-> TRUE, categories |-> {}, category_scores |-> Undefined,
      scores |-> Undefined]}

Init ==
    /\ env \in [supabase : BOOLEAN, openai : BOOLEAN, jwtSecret : BOOLEAN,
                masterApiKey : {<<"K">>}]
    /\ IsTableOf(rules, HttpRuleSet, MaxHttpRules)
    /\ req = NoReq
    /\ content = NoContent
    /\ pc = "idle"
    /\ fetched = NoFetch
    /\ outcome = NoOverride
    /\ modResult = NoResult
    /\ sev = NoSev
    /\ sevModerate = NoSevModerate
    /\ response = NoResponse
    /\ logs = <<>>
    /\ calls = NoCalls
    /\ now = expiresIn
    /\ clients = {}
    /\ tokenReq = NoTokenReq
    /\ tokenResponse = NoResponse
    /\ adminReq = NoAdminReq
    /\ adminResponse = NoResponse
    /\ nextId = Len(rules) + 1
    /\ dailyStats = <<>>

ErrorResponse(status, error) == [status |-> status, error |-> error]

\* The response without the id of the matched rule.
SuccessResponseWithoutRuleId(result, s, o) ==
    [status |-> 200,
     success |-> TRUE,
     flagged |-> result.flagged,
     action |-> s.determinedAction,
     severity |-> s.severity,
     categories |-> result.categories,
     scores |-> result.category_scores,
     custom_rule_applied |-> Truthy(o.actionOverride),
     matched_rule_id |-> 0]

\* The body of the final NextResponse.json, from the handler's locals.
SuccessResponse(result, s, o) ==
    [status |-> 200,
     success |-> TRUE,
     flagged |-> result.flagged,
     action |-> s.determinedAction,
     severity |-> s.severity,
     categories |-> result.categories,
     scores |-> result.category_scores,
     custom_rule_applied |-> Truthy(o.actionOverride),
     matched_rule_id |-> o.ruleMatched.id]

\* The row inserted into moderation_logs.
LogRow(text, result, s, o) ==
    [content |-> text,
     flagged |-> result.flagged,
     action |-> s.determinedAction,
     severity |-> s.severity,
     custom_rule_id |-> o.ruleMatched.id]

\* After a decision: the insert is awaited when the database client exists,
\* otherwise the response is sent at once.
LogOrRespond(result, s, o) ==
    IF env.supabase
    THEN pc' = "log" /\ response' = NoResponse
    ELSE pc' = "done" /\ response' = SuccessResponse(result, s, o)

\* The fallback after applyCustomRules returned no override: the classifier is
\* called when its client exists.
Fallback(c) ==
    IF ~env.openai
    THEN /\ pc' = "done" /\ response' = ErrorResponse(500, "server_error")
         /\ calls' = c
    ELSE /\ pc' = "classifier" /\ response' = NoResponse
         /\ calls' = [c EXCEPT !.classifier = @ + 1]

\* The handler calling the classifier whatever applyCustomRules returned.
AfterRulesAlwaysClassify(o) ==
    /\ outcome' = o
    /\ UNCHANGED <<modResult, sev>>
    /\ Fallback(calls)

\* The handler from the return of applyCustomRules to its next await or return.
AfterRules(o) ==
    /\ outcome' = o
    /\ IF Truthy(o.actionOverride)
       THEN LET result == [flagged |-> o.actionOverride # "approved",
                           categories |-> {},
                           category_scores |-> Obj(EmptyMap),
                           scores |-> Undefined]
                s == [action |-> result.flagged, severity |-> "custom_rule",
                      determinedAction |-> o.actionOverride]
            IN /\ modResult' = result
               /\ sev' = s
               /\ LogOrRespond(result, s, o)
               /\ UNCHANGED calls
       ELSE /\ UNCHANGED <<modResult, sev>>
            /\ Fallback(calls)

\* The checks with the token verified before the server secret is looked at.
GateTokenFirst(r, c) ==
    IF r.authHeader # "bearer" THEN ErrorResponse(401, "unauthorized")
    ELSE IF ~JwtVerify(r.token, now) THEN ErrorResponse(401, "unauthorized")
    ELSE IF ~env.jwtSecret THEN ErrorResponse(500, "server_error")
    ELSE IF ~r.json THEN ErrorResponse(400, "invalid_json")
    ELSE IF c = NoContent THEN ErrorResponse(400, "invalid_request")
    ELSE NoResponse

\* The checks both moderation handlers make before they look at the content:
\* the response they return, or NoResponse when the request passes.
Gate(r, c) ==
    IF r.authHeader # "bearer" THEN ErrorResponse(401, "unauthorized")
    ELSE IF ~env.jwtSecret THEN ErrorResponse(500, "server_error")
    ELSE IF ~JwtVerify(r.token, now) THEN ErrorResponse(401, "unauthorized")
    ELSE IF ~r.json THEN ErrorResponse(400, "invalid_json")
    ELSE IF c = NoContent THEN ErrorResponse(400, "invalid_request")
    ELSE NoResponse

\* A request arrives: authentication, body, validation, and the start of
\* applyCustomRules up to its select.
Receive(r, c) ==
    /\ pc \in {"idle", "done"}
    /\ Len(logs) < MaxLogs
    /\ r.path = "/api/content-moderation"
    /\ req' = r
    /\ content' = c
    /\ fetched' = NoFetch
    /\ outcome' = NoOverride /\ modResult' = NoResult /\ sev' = NoSev
    /\ IF Gate(r, c) # NoResponse
       THEN pc' = "done" /\ response' = Gate(r, c) /\ calls' = Arrived(now)
       ELSE IF ~env.supabase
       THEN Fallback(Arrived(now))
       ELSE pc' = "select" /\ response' = NoResponse /\ calls' = Arrived(now)
    /\ UNCHANGED <<env, rules, sevModerate, logs, tokenVars, adminVars>>

\* The orders in which a select without an order clause may return a table.
Orders(t) ==
    {l \in [1..Len(t) -> {t[i] : i \in 1..Len(t)}] :
        \A i, j \in 1..Len(t) : i # j => l[i] # l[j]}

\* The database answers the select on custom_moderation_rules.
SelectRules(err, list) ==
    /\ pc = "select"
    /\ list \in Orders(rules)
    /\ fetched' = IF err = "none" THEN [error |-> "none", data |-> list]
                  ELSE [error |-> err, data |-> <<>>]
    /\ calls' = [calls EXCEPT !.store = @ + 1]
    /\ pc' = "scan"
    /\ UNCHANGED <<env, rules, req, content, outcome, modResult, sev, sevModerate,
                   response, logs, tokenVars, adminVars>>

\* applyCustomRules selecting the rules again when it scans.
ScanReadingStoreAgain ==
    /\ pc = "scan"
    /\ AfterRules(IF fetched.error # "none" THEN NoOverride
                  ELSE applyCustomRules(rules, content))
    /\ UNCHANGED <<env, rules, req, content, fetched, sevModerate, logs, tokenVars, adminVars>>

\* The handler answering 500 when the select of the rules failed.
ScanRejectingOnStoreError ==
    /\ pc = "scan"
    /\ IF fetched.error # "none"
       THEN /\ pc' = "done" /\ response' = ErrorResponse(500, "database_error")
            /\ UNCHANGED <<outcome, modResult, sev, calls>>
       ELSE AfterRules(applyCustomRules(fetched.data, content))
    /\ UNCHANGED <<env, rules, req, content, fetched, sevModerate, logs, tokenVars, adminVars>>

\* applyCustomRules resumes with the answer, returns, and the handler goes on.
Scan ==
    /\ pc = "scan"
    /\ AfterRules(IF fetched.error # "none" THEN NoOverride
                  ELSE applyCustomRules(fetched.data, content))
    /\ UNCHANGED <<env, rules, req, content, fetched, sevModerate, logs, tokenVars, adminVars>>

\* The handler approving the content when the classifier call fails.
ClassifierAnswersGuessing(ok, result) ==
    LET r == IF ok THEN result ELSE NoResult
    IN /\ pc = "classifier"
       /\ modResult' = r
       /\ sev' = determineActionAndSeverity(r)
       /\ LogOrRespond(r, determineActionAndSeverity(r), outcome)
       /\ calls' = [calls EXCEPT !.failed = ~ok]
       /\ UNCHANGED <<env, rules, req, content, fetched, outcome, sevModerate, logs,
                      tokenVars, adminVars>>

\* openai.moderations.create answers with a result, or fails.
ClassifierAnswers(ok, result) ==
    /\ pc = "classifier"
    /\ IF ok
       THEN /\ modResult' = result
            /\ sev' = determineActionAndSeverity(result)
            /\ LogOrRespond(result, determineActionAndSeverity(result), outcome)
       ELSE /\ pc' = "done" /\ response' = ErrorResponse(500, "openai_error")
            /\ UNCHANGED <<modResult, sev>>
    /\ calls' = [calls EXCEPT !.failed = ~ok]
    /\ UNCHANGED <<env, rules, req, content, fetched, outcome, sevModerate, logs,
                   tokenVars, adminVars>>

\* The handler answering 500 when the insert into moderation_logs fails.
LogAnswersBlocking(result) ==
    /\ pc = "log"
    /\ logs' = IF result = "ok" THEN Append(logs, LogRow(content, modResult, sev, outcome))
               ELSE logs
    /\ calls' = [calls EXCEPT !.attempts = @ + 1,
                              !.inserts = IF result = "ok" THEN @ + 1 ELSE @]
    /\ response' = IF result = "ok" THEN SuccessResponse(modResult, sev, outcome)
                   ELSE ErrorResponse(500, "database_error")
    /\ pc' = "done"
    /\ UNCHANGED <<env, rules, req, content, fetched, outcome, modResult, sev, sevModerate,
                   tokenVars, adminVars>>

\* The insert into moderation_logs answers; the response is sent whatever it says.
LogAnswers(result) ==
    /\ pc = "log"
    /\ logs' = IF result = "ok" THEN Append(logs, LogRow(content, modResult, sev, outcome))
               ELSE logs
    /\ calls' = [calls EXCEPT !.attempts = @ + 1,
                              !.inserts = IF result = "ok" THEN @ + 1 ELSE @]
    /\ response' = SuccessResponse(modResult, sev, outcome)
    /\ pc' = "done"
    /\ UNCHANGED <<env, rules, req, content, fetched, outcome, modResult, sev, sevModerate,
                   tokenVars, adminVars>>

\* ---------------------------------------------------- POST /api/moderate
\* The body of the final NextResponse.json of moderate/route.ts.
SuccessResponseModerate(result, s) ==
    [status |-> 200,
     success |-> TRUE,
     flagged |-> result.flagged,
     action |-> s.action,
     severity |-> s.severity,
     categories |-> result.categories,
     scores |-> result.scores]

\* The row moderate/route.ts inserts; the column custom_rule_id is not set.
LogRowModerate(text, result, s) ==
    [content |-> text,
     flagged |-> result.flagged,
     action |-> s.action,
     severity |-> s.severity,
     custom_rule_id |-> 0]

\* A request arrives: authentication, body, validation, the check of the
\* OpenAI client, and the call of the classifier.
ReceiveModerate(r, c) ==
    /\ pc \in {"idle", "done"}
    /\ Len(logs) < MaxLogs
    /\ r.path = "/api/moderate"
    /\ req' = r
    /\ content' = c
    /\ fetched' = NoFetch
    /\ outcome' = NoOverride /\ modResult' = NoResult /\ sevModerate' = NoSevModerate
    /\ IF Gate(r, c) # NoResponse
       THEN pc' = "done" /\ response' = Gate(r, c) /\ calls' = Arrived(now)
       ELSE IF ~env.openai
       THEN /\ pc' = "done" /\ response' = ErrorResponse(500, "server_error")
            /\ calls' = Arrived(now)
       ELSE /\ pc' = "classifierModerate" /\ response' = NoResponse
            /\ calls' = [Arrived(now) EXCEPT !.classifier = 1]
    /\ UNCHANGED <<env, rules, sev, logs, tokenVars, adminVars>>

\* openai.moderations.create answers with a result, or fails; a TypeError in
\* determineActionAndSeverity is caught by the same catch.
ClassifierAnswersModerate(ok, result) ==
    /\ pc = "classifierModerate"
    /\ IF ok /\ determineActionAndSeverityModerate(result) # TypeError
       THEN /\ modResult' = result
            /\ sevModerate' = determineActionAndSeverityModerate(result)
            /\ IF env.supabase
               THEN pc' = "logModerate" /\ response' = NoResponse
               ELSE /\ pc' = "done"
                    /\ response' = SuccessResponseModerate(result,
                                       determineActionAndSeverityModerate(result))
       ELSE /\ pc' = "done" /\ response' = ErrorResponse(500, "openai_error")
            /\ modResult' = IF ok THEN result ELSE modResult
            /\ UNCHANGED sevModerate
    /\ calls' = [calls EXCEPT !.failed = ~ok]
    /\ UNCHANGED <<env, rules, req, content, fetched, outcome, sev, logs,
                   tokenVars, adminVars>>

\* The insert into moderation_logs answers; the response is sent whatever it says.
LogAnswersModerate(result) ==
    /\ pc = "logModerate"
    /\ logs' = IF result = "ok"
               THEN Append(logs, LogRowModerate(content, modResult, sevModerate))
               ELSE logs
    /\ calls' = [calls EXCEPT !.attempts = @ + 1,
                              !.inserts = IF result = "ok" THEN @ + 1 ELSE @]
    /\ response' = SuccessResponseModerate(modResult, sevModerate)
    /\ pc' = "done"
    /\ UNCHANGED <<env, rules, req, content, fetched, outcome, modResult, sev, sevModerate,
                   tokenVars, adminVars>>

Next ==
    \/ \E r \in HttpRequests : \E c \in ContentsRead(r) : Receive(r, c)
    \/ \E err \in {"none", "dbError", "thrown"}, list \in Orders(rules) : SelectRules(err, list)
    \/ Scan
    \/ \E ok \in BOOLEAN, result \in HttpClassifierResults : ClassifierAnswers(ok, result)
    \/ \E result \in {"ok", "error", "thrown"} : LogAnswers(result)
    \/ \E r \in HttpRequests : \E c \in ContentsRead(r) : ReceiveModerate(r, c)
    \/ \E ok \in BOOLEAN, result \in HttpClassifierResults :
          ClassifierAnswersModerate(ok, result)
    \/ \E result \in {"ok", "error", "thrown"} : LogAnswersModerate(result)

Spec == Init /\ [][Next]_vars

\* ------------------------------------- POST, DELETE /api/moderation/rules
\* JavaScript truthiness and type of a body flag: "true", "false", "undefined"
\* (the field is absent and the default false applies) or another value.
FlagValues == {"true", "false", "undefined", "other"}

IsBooleanFlag(v) == v \in {"true", "false", "undefined"}

AllowedOverrides == {"block", "approve", "manual_review", "warn"}

\* if (!authHeader || !authHeader.startsWith('Bearer ') ||
\*     authHeader.split(' ')[1] !== masterApiKey)
\* An Authorization header is the sequence of the pieces between its single
\* spaces (<<>> when the header is absent), so that authHeader.split(' ')[1] is
\* its second piece; process.env.MASTER_API_KEY is <<>> when unset and <<k>>
\* when set to the string k.
Authorized(a) ==
    /\ a.authHeader # <<>>
    /\ Len(a.authHeader) >= 2 /\ a.authHeader[1] = "Bearer"
    /\ <<a.authHeader[2]>> = env.masterApiKey

\* The validation of the POST body: the error response, or NoResponse.
ValidateRule(b) ==
    IF ~Truthy(b.term) \/ b.term = <<>> THEN ErrorResponse(400, "invalid_request")
    ELSE IF b.type \notin {"blacklist", "whitelist"} THEN ErrorResponse(400, "invalid_request")
    ELSE IF Truthy(b.action_override) /\ b.action_override \notin AllowedOverrides
         THEN ErrorResponse(400, "invalid_request")
    ELSE IF ~IsBooleanFlag(b.is_regex) \/ ~IsBooleanFlag(b.case_sensitive)
         THEN ErrorResponse(400, "invalid_request")
    ELSE NoResponse

\* The row the insert creates from the body.
NewRow(id, b) ==
    [id |-> id, term |-> b.term, type |-> b.type, action_override |-> b.action_override,
     is_regex |-> (b.is_regex = "true"), case_sensitive |-> (b.case_sensitive = "true")]

\* POST /api/moderation/rules; db is the answer of the insert.
PostRule(a, b, db) ==
    /\ Len(rules) < MaxAdminRules
    /\ nextId <= MaxRuleId
    /\ IF ~Authorized(a)
       THEN adminResponse' = ErrorResponse(401, "unauthorized") /\ UNCHANGED <<rules, nextId>>
       ELSE IF ~a.json
       THEN adminResponse' = ErrorResponse(400, "invalid_json") /\ UNCHANGED <<rules, nextId>>
       ELSE IF ValidateRule(b) # NoResponse
       THEN adminResponse' = ValidateRule(b) /\ UNCHANGED <<rules, nextId>>
       ELSE IF ~env.supabase
       THEN adminResponse' = ErrorResponse(500, "server_error") /\ UNCHANGED <<rules, nextId>>
       ELSE IF db = "ok"
       THEN /\ rules' = Append(rules, NewRow(nextId, b))
            /\ nextId' = nextId + 1
            /\ adminResponse' = [status |-> 201, success |-> TRUE, rule |-> NewRow(nextId, b)]
       ELSE /\ adminResponse' = IF db = "23505" THEN ErrorResponse(409, "duplicate_rule")
                                ELSE IF db = "dbError"
                                     THEN ErrorResponse(500, "database_error")
                                     ELSE ErrorResponse(500, "server_error")
            /\ UNCHANGED <<rules, nextId>>
    /\ adminReq' = [op |-> "POST", authHeader |-> a.authHeader,
                    json |-> a.json, body |-> b, id |-> 0, client |-> NULL,
                    date |-> NULL,
                    statements |-> IF /\ Authorized(a) /\ a.json
                                      /\ ValidateRule(b) = NoResponse /\ env.supabase
                                   THEN 1 ELSE 0,
                    removed |-> 0]
    /\ UNCHANGED <<env, req, content, pc, fetched, outcome, modResult, sev, sevModerate,
                   response, logs, calls, tokenVars, dailyStats>>

\* The rows of t whose id is not id, in their order.
RECURSIVE Without(_, _)
Without(t, id) ==
    IF t = <<>> THEN <<>>
    ELSE IF Head(t).id = id THEN Without(Tail(t), id)
         ELSE <<Head(t)>> \o Without(Tail(t), id)

\* The count a delete reports when it was not asked to count: null.
NullCount == -1

\* DELETE /api/moderation/rules; id 0 is a missing id; db is the answer of the
\* delete.
DeleteRule(a, id, db) ==
    /\ IF ~Authorized(a)
       THEN adminResponse' = ErrorResponse(401, "unauthorized") /\ UNCHANGED rules
       ELSE IF ~a.json
       THEN adminResponse' = ErrorResponse(400, "invalid_json") /\ UNCHANGED rules
       ELSE IF id = 0
       THEN adminResponse' = ErrorResponse(400, "invalid_request") /\ UNCHANGED rules
       ELSE IF ~env.supabase
       THEN adminResponse' = ErrorResponse(500, "server_error") /\ UNCHANGED rules
       ELSE IF db = "ok"
       THEN /\ rules' = Without(rules, id)
            /\ adminResponse' = IF NullCount = 0
                                THEN [status |-> 404, success |-> FALSE]
                                ELSE [status |-> 200, success |-> TRUE]
       ELSE /\ adminResponse' = IF db = "dbError" THEN ErrorResponse(500, "database_error")
                                ELSE ErrorResponse(500, "server_error")
            /\ UNCHANGED rules
    /\ adminReq' = [op |-> "DELETE", authHeader |-> a.authHeader,
                    json |-> a.json, body |-> NoRuleBody, id |-> id, client |-> NULL,
                    date |-> NULL,
                    statements |-> IF Authorized(a) /\ a.json /\ id # 0 /\ env.supabase
                                   THEN 1 ELSE 0,
                    removed |-> Len(rules) - Len(rules')]
    /\ UNCHANGED <<env, req, content, pc, fetched, outcome, modResult, sev, sevModerate,
                   response, logs, calls, tokenVars, nextId, dailyStats>>

\* The values of MASTER_API_KEY: unset, set to the empty string, set to a key.
MasterKeys == {<<>>, <<"">>, <<"K">>}

\* Authorization headers: absent, without a second piece, of another scheme,
\* with the key, with another key, with the key and more after it, and with
\* two spaces after Bearer.
AuthHeaders ==
    {<<>>, <<"Bearer">>, <<"Basic", "K">>, <<"Bearer", "K">>, <<"Bearer", "W">>,
     <<"Bearer", "K", "x">>, <<"Bearer", "", "x">>}

\* Requests with every kind of header. A request that fails the key check is
\* rejected before its body is parsed: its body is not an input of the handler.
KeyRequests ==
    {a \in [authHeader : AuthHeaders, json : BOOLEAN] : ~Authorized(a) => a.json}

\* Administration requests: without a header, with the key, with another key.
AdminRequests ==
    {a \in KeyRequests : a.authHeader \in {<<>>, <<"Bearer", "K">>, <<"Bearer", "W">>}}

\* The bodies a handler can tell apart: all of them once the request passed the
\* key check and parsed, otherwise none.
BodiesRead(a, bodies, none) == IF Authorized(a) /\ a.json THEN bodies ELSE {none}

\* The answers of the database a handler can tell apart: all of them once it
\* issues its statement, otherwise none.
AnswersRead(a, valid, answers) ==
    IF Authorized(a) /\ a.json /\ valid /\ env.supabase THEN answers ELSE {"ok"}

AdminRuleSet ==
    {[term |-> <<"a">>, type |-> "blacklist", action_override |-> NULL,
      is_regex |-> FALSE, case_sensitive |-> FALSE],
     [term |-> <<"a">>, type |-> "whitelist", action_override |-> "warn",
      is_regex |-> FALSE, case_sensitive |-> FALSE]}

RuleBodies ==
    {[term |-> <<"a">>, type |-> "blacklist", action_override |-> NULL,
      is_regex |-> "undefined", case_sensitive |-> "undefined"],
     [term |-> <<"a">>, type |-> "whitelist", action_override |-> "warn",
      is_regex |-> "false", case_sensitive |-> "false"],
     [term |-> <<>>, type |-> "blacklist", action_override |-> NULL,
      is_regex |-> "false", case_sensitive |-> "false"],
     [term |-> <<"a">>, type |-> "greylist", action_override |-> NULL,
      is_regex |-> "false", case_sensitive |-> "false"],
     [term |-> <<"a">>, type |-> "blacklist", action_override |-> "delete",
      is_regex |-> "false", case_sensitive |-> "false"],
     [term |-> <<"a">>, type |-> "blacklist", action_override |-> "",
      is_regex |-> "false", case_sensitive |-> "false"],
     [term |-> <<"a">>, type |-> "blacklist", action_override |-> NULL,
      is_regex |-> "other", case_sensitive |-> "false"]}

\* The moderation request sent while rules are administered.
AdminModerationRequest ==
    [path |-> "/api/content-moderation", authHeader |-> "bearer",
     token |-> JwtSign("c1", "moderate_content", 1), json |-> TRUE]


\* -------------------------------------------------------- POST /api/token
\* bcrypt: the stored hash of a secret, and bcrypt.compare(secret, hash).
Hash(secret) == <<"bcrypt", secret>>

\* A comparison that accepts every secret.
BcryptCompareAny(secret, hash) == Truthy(secret)

BcryptCompare(secret, hash) == Truthy(secret) /\ hash = Hash(secret)

\* api_clients: one client allowed to moderate, and one created without a
\* scope, which the clients endpoint stores as 'default'.
RegisteredClients ==
    {[client_id |-> "c1", client_secret_hash |-> Hash("s1"), scope |-> "moderate_content"],
     [client_id |-> "c2", client_secret_hash |-> Hash("s2"), scope |-> "default"]}

\* The rows .eq('client_id', id) selects.
ClientRows(id) == {c \in clients : c.client_id = id}

\* Bodies of a token request; "undefined" is an absent field. Every client id
\* and secret with the right grant type, and a registered client with its
\* secret and another grant type or none.
TokenBodies ==
    [json : {TRUE}, client_id : {"c1", "c2", "c3", NULL},
     client_secret : {"s1", "s2", NULL}, grant_type : {"client_credentials"}]
    \cup
    [json : {TRUE}, client_id : {"c1"}, client_secret : {"s1"},
     grant_type : {"password", "undefined"}]
    \cup {NoTokenReq}

\* The answers of the select on api_clients a request can tell apart: all of
\* them once it is issued, otherwise none.
TokenAnswersRead(b) ==
    IF /\ env.jwtSecret /\ b.json /\ Truthy(b.client_id) /\ Truthy(b.client_secret)
       /\ b.grant_type = "client_credentials" /\ env.supabase
    THEN {"ok", "dbError", "thrown"} ELSE {"ok"}

\* POST /api/token; db is the answer of the select on api_clients.
TokenPost(b, db) ==
    /\ tokenReq' = b
    /\ tokenResponse' =
          IF ~env.jwtSecret THEN ErrorResponse(500, "server_error")
          ELSE IF ~b.json THEN ErrorResponse(400, "invalid_json")
          ELSE IF \/ ~Truthy(b.client_id)
                  \/ ~Truthy(b.client_secret)
                  \/ b.grant_type # "client_credentials"
               THEN ErrorResponse(400, "invalid_request")
          ELSE IF ~env.supabase THEN ErrorResponse(500, "server_error")
          ELSE IF db = "thrown" THEN ErrorResponse(500, "server_error")
          ELSE IF db = "dbError" \/ ClientRows(b.client_id) = {}
               THEN ErrorResponse(401, "unauthorized")
          ELSE LET data == CHOOSE c \in ClientRows(b.client_id) : TRUE
               IN IF ~BcryptCompare(b.client_secret, data.client_secret_hash)
                  THEN ErrorResponse(401, "unauthorized")
                  ELSE [status |-> 200,
                        access_token |-> JwtSign(b.client_id, data.scope, now),
                        token_type |-> "Bearer",
                        expires_in |-> 3600]
    /\ UNCHANGED <<env, rules, req, content, pc, fetched, outcome, modResult, sev, sevModerate,
                   response, logs, calls, now, clients, adminVars>>

\* The instants at which the clock is looked at: around every multiple of the
\* token lifetime.
Instants == {t \in 0..MaxClock : t % expiresIn \in {0, 1, expiresIn - 1}}

\* Time passes.
Tick(t) ==
    /\ t \in Instants
    /\ t > now
    /\ now' = t
    /\ UNCHANGED <<env, rules, req, content, pc, fetched, outcome, modResult, sev, sevModerate,
                   response, logs, calls, clients, tokenReq, tokenResponse, adminVars>>

\* The moderation requests of a client that holds the token it was issued.
HolderRequests ==
    IF tokenResponse.status # 200 THEN {}
    ELSE [path : Paths, authHeader : {"bearer"}, token : {tokenResponse.access_token},
          json : {TRUE}]

InitToken ==
    /\ env \in [supabase : BOOLEAN, openai : {TRUE}, jwtSecret : BOOLEAN,
                masterApiKey : {<<"K">>}]
    /\ rules = <<>>
    /\ req = NoReq
    /\ content = NoContent
    /\ pc = "idle"
    /\ fetched = NoFetch
    /\ outcome = NoOverride
    /\ modResult = NoResult
    /\ sev = NoSev
    /\ sevModerate = NoSevModerate
    /\ response = NoResponse
    /\ logs = <<>>
    /\ calls = NoCalls
    /\ now = 0
    /\ clients = RegisteredClients
    /\ tokenReq = NoTokenReq
    /\ tokenResponse = NoResponse
    /\ adminReq = NoAdminReq
    /\ adminResponse = NoResponse
    /\ nextId = Len(rules) + 1
    /\ dailyStats = <<>>

NextToken ==
    \/ \E b \in TokenBodies : \E db \in TokenAnswersRead(b) : TokenPost(b, db)
    \/ \E t \in Instants : Tick(t)
    \/ \E r \in HolderRequests : Receive(r, <<"a">>)
    \/ \E err \in {"none", "dbError"} : SelectRules(err, rules)
    \/ Scan
    \/ \E ok \in BOOLEAN, result \in {r \in HttpClassifierResults : ~r.flagged} :
          ClassifierAnswers(ok, result)
    \/ \E result \in {"ok", "error"} : LogAnswers(result)
    \/ \E r \in HolderRequests : ReceiveModerate(r, <<"a">>)
    \/ \E ok \in BOOLEAN, result \in {r \in HttpClassifierResults : ~r.flagged} :
          ClassifierAnswersModerate(ok, result)
    \/ \E result \in {"ok", "error"} : LogAnswersModerate(result)

SpecToken == InitToken /\ [][NextToken]_vars

\* ------------------------------- DELETE /api/clients/[id], administration
\* !count of JavaScript: true of null and of 0.
NotCount(count) == count = NullCount \/ count = 0

\* DELETE /api/clients/[id]; id is the parameter of the URL, NULL when it is
\* empty; db is the answer of the delete.
DeleteClient(a, id, db) ==
    /\ IF ~Authorized(a)
       THEN adminResponse' = ErrorResponse(401, "unauthorized") /\ UNCHANGED clients
       ELSE IF ~Truthy(id)
       THEN adminResponse' = ErrorResponse(400, "invalid_request") /\ UNCHANGED clients
       ELSE IF ~env.supabase
       THEN adminResponse' = ErrorResponse(500, "server_error") /\ UNCHANGED clients
       ELSE IF db = "ok"
       THEN /\ clients' = clients \ ClientRows(id)
            /\ adminResponse' = IF NotCount(NullCount) \/ NullCount = 0
                                THEN ErrorResponse(404, "not_found")
                                ELSE [status |-> 200, success |-> TRUE]
       ELSE /\ adminResponse' = IF db = "dbError" THEN ErrorResponse(500, "database_error")
                                ELSE ErrorResponse(500, "server_error")
            /\ UNCHANGED clients
    /\ adminReq' = [op |-> "DELETE_CLIENT", authHeader |-> a.authHeader,
                    json |-> TRUE, body |-> NoRuleBody, id |-> 0, client |-> id,
                    date |-> NULL,
                    statements |-> IF Authorized(a) /\ Truthy(id) /\ env.supabase
                                   THEN 1 ELSE 0,
                    removed |-> Cardinality(clients) - Cardinality(clients')]
    /\ UNCHANGED <<env, rules, req, content, pc, fetched, outcome, modResult, sev,
                   sevModerate, response, logs, calls, now, tokenReq, tokenResponse, nextId,
                   dailyStats>>

InitAdmin ==
    /\ env \in [supabase : BOOLEAN, openai : {TRUE}, jwtSecret : {TRUE},
                masterApiKey : {<<>>, <<"K">>}]
    /\ IsTableOf(rules, AdminRuleSet, MaxAdminRules)
    /\ req = NoReq
    /\ content = NoContent
    /\ pc = "idle"
    /\ fetched = NoFetch
    /\ outcome = NoOverride
    /\ modResult = NoResult
    /\ sev = NoSev
    /\ sevModerate = NoSevModerate
    /\ response = NoResponse
    /\ logs = <<>>
    /\ calls = NoCalls
    /\ now = expiresIn
    /\ clients = {}
    /\ tokenReq = NoTokenReq
    /\ tokenResponse = NoResponse
    /\ adminReq = NoAdminReq
    /\ adminResponse = NoResponse
    /\ nextId = Len(rules) + 1
    /\ dailyStats = <<>>

NextAdmin ==
    \/ \E a \in AdminRequests :
          \E b \in BodiesRead(a, RuleBodies, NoRuleBody) :
             \E db \in AnswersRead(a, ValidateRule(b) = NoResponse,
                                    {"ok", "23505", "dbError", "thrown"}) :
                PostRule(a, b, db)
    \/ \E a \in AdminRequests :
          \E id \in BodiesRead(a, 0..MaxRuleId, 0) :
             \E db \in AnswersRead(a, id # 0, {"ok", "dbError", "thrown"}) :
                DeleteRule(a, id, db)
    \/ Receive(AdminModerationRequest, <<"a">>)
    \/ \E err \in {"none", "dbError"}, list \in Orders(rules) : SelectRules(err, list)
    \/ Scan
    \/ \E ok \in BOOLEAN, result \in {r \in HttpClassifierResults : ~r.flagged} :
          ClassifierAnswers(ok, result)
    \/ \E result \in {"ok", "error"} : LogAnswers(result)

SpecAdmin == InitAdmin /\ [][NextAdmin]_vars

\* The master-key endpoints on their own, with every kind of header and key.
InitKeys ==
    /\ env \in [supabase : BOOLEAN, openai : {TRUE}, jwtSecret : {TRUE},
                masterApiKey : MasterKeys]
    /\ IsTableOf(rules, AdminRuleSet, MaxAdminRules)
    /\ req = NoReq
    /\ content = NoContent
    /\ pc = "idle"
    /\ fetched = NoFetch
    /\ outcome = NoOverride
    /\ modResult = NoResult
    /\ sev = NoSev
    /\ sevModerate = NoSevModerate
    /\ response = NoResponse
    /\ logs = <<>>
    /\ calls = NoCalls
    /\ now = expiresIn
    /\ clients = RegisteredClients
    /\ tokenReq = NoTokenReq
    /\ tokenResponse = NoResponse
    /\ adminReq = NoAdminReq
    /\ adminResponse = NoResponse
    /\ nextId = Len(rules) + 1
    /\ dailyStats = <<>>

NextKeys ==
    \/ \E a \in KeyRequests :
          \E b \in BodiesRead(a, RuleBodies, NoRuleBody) :
             \E db \in AnswersRead(a, ValidateRule(b) = NoResponse,
                                    {"ok", "23505", "dbError", "thrown"}) :
                PostRule(a, b, db)
    \/ \E a \in KeyRequests :
          \E id \in BodiesRead(a, 0..MaxRuleId, 0) :
             \E db \in AnswersRead(a, id # 0, {"ok", "dbError", "thrown"}) :
                DeleteRule(a, id, db)
    \/ \E a \in {r \in KeyRequests : r.json} :
          \E id \in BodiesRead(a, {"c1", "c3", NULL}, NULL) :
             \E db \in AnswersRead(a, Truthy(id), {"ok", "dbError", "thrown"}) :
                DeleteClient(a, id, db)

SpecKeys == InitKeys /\ [][NextKeys]_vars

\* ------------------------------------------------- POST /api/stats/daily
\* Dates are the strings of the request; Yesterday is the date the handler
\* computes from the clock when the request names none.
Days == {"2025-01-01", "2025-01-02"}

Yesterday == "2025-01-01"

\* The rows of moderation_logs the statistics read: the day of created_at,
\* flagged, and the categories.
StatLogRows ==
    {[day |-> d, flagged |-> k.flagged, categories |-> k.categories] :
        d \in Days,
        k \in {[flagged |-> TRUE, categories |-> {"hate"}],
               [flagged |-> FALSE, categories |-> {}]}}

\* select(...).gte('created_at', date T00:00).lt('created_at', date T23:59:59.999)
RECURSIVE LogsOn(_, _)
LogsOn(date, t) ==
    IF t = <<>> THEN <<>>
    ELSE IF Head(t).day = date THEN <<Head(t)>> \o LogsOn(date, Tail(t))
         ELSE LogsOn(date, Tail(t))

\* logs.forEach(log => { if (log.flagged) flaggedRequests++ })
RECURSIVE CountFlagged(_)
CountFlagged(t) ==
    IF t = <<>> THEN 0
    ELSE (IF Head(t).flagged THEN 1 ELSE 0) + CountFlagged(Tail(t))

\* categoryBreakdown[category] = (categoryBreakdown[category] || 0) + 1
RECURSIVE CategoryBreakdown(_)
CategoryBreakdown(t) ==
    IF t = <<>> THEN EmptyMap
    ELSE LET rest == CategoryBreakdown(Tail(t))
             cats == Head(t).categories
         IN [c \in DOMAIN rest \cup cats |->
                (IF c \in DOMAIN rest THEN rest[c] ELSE 0) + (IF c \in cats THEN 1 ELSE 0)]

RECURSIVE Gcd(_, _)
Gcd(a, b) == IF b = 0 THEN a ELSE Gcd(b, a % b)

\* The quotient n / d of two counts, as the fraction in lowest terms.
Quotient(n, d) == <<n \div Gcd(n, d), d \div Gcd(n, d)>>

\* totalRequests > 0 ? (totalRequests - flaggedRequests) / totalRequests : 1.0
ApprovalRate(total, flagged) ==
    IF total > 0 THEN Quotient(total - flagged, total) ELSE <<1, 1>>

\* dailyStatsData for a date, from the logs selected for it.
DailyStatsData(date, selected) ==
    [date |-> date,
     total_requests |-> Len(selected),
     flagged_requests |-> CountFlagged(selected),
     approval_rate |-> ApprovalRate(Len(selected), CountFlagged(selected)),
     category_breakdown |-> CategoryBreakdown(selected)]

\* An insert in place of the upsert.
InsertStats(t, row) == Append(t, row)

\* upsert(row, { onConflict: 'date' }): the row of that date is replaced, or
\* the row is added.
Upsert(t, row) ==
    IF \E i \in 1..Len(t) : t[i].date = row.date
    THEN [i \in 1..Len(t) |-> IF t[i].date = row.date THEN row ELSE t[i]]
    ELSE Append(t, row)

\* The webhook notifications the handler sends after saving.
Notifications(row) ==
    IF row.total_requests > 0
    THEN (IF (row.total_requests - row.flagged_requests) * 10 < 8 * row.total_requests
          THEN {"warning"} ELSE {})
         \cup (IF row.flagged_requests > 5 THEN {"alert"} ELSE {})
    ELSE {}

\* POST /api/stats/daily; date is the date of the body, NULL when the body has
\* none or is not JSON; dbLogs and dbUpsert are the answers of the select and
\* of the upsert. A string that is no date makes the select fail.
ComputeDailyStats(a, date, dbLogs, dbUpsert) ==
    LET targetDate == IF Truthy(date) THEN date ELSE Yesterday
        row == DailyStatsData(targetDate, LogsOn(targetDate, logs))
        selects == Authorized(a) /\ env.supabase
        upserts == selects /\ targetDate \in Days /\ dbLogs = "ok"
        saved == upserts /\ dbUpsert = "ok"
    IN /\ adminResponse' =
             IF ~Authorized(a) THEN ErrorResponse(401, "unauthorized")
             ELSE IF ~env.supabase THEN ErrorResponse(500, "server_error")
             ELSE IF targetDate \notin Days \/ dbLogs = "dbError"
                  THEN ErrorResponse(500, "database_error")
             ELSE IF dbLogs = "thrown" THEN ErrorResponse(500, "server_error")
             ELSE IF dbUpsert = "dbError" THEN ErrorResponse(500, "database_error")
             ELSE IF dbUpsert = "thrown" THEN ErrorResponse(500, "server_error")
             ELSE [status |-> 200, success |-> TRUE, stats |-> row,
                   notifications |-> Notifications(row)]
       /\ dailyStats' = IF saved THEN Upsert(dailyStats, row) ELSE dailyStats
       /\ adminReq' = [op |-> "STATS", authHeader |-> a.authHeader, json |-> TRUE,
                       body |-> NoRuleBody, id |-> 0, client |-> NULL,
                       date |-> IF Authorized(a) /\ env.supabase THEN targetDate ELSE NULL,
                       statements |-> (IF selects THEN 1 ELSE 0) + (IF upserts THEN 1 ELSE 0),
                       removed |-> 0]
       /\ UNCHANGED <<env, rules, req, content, pc, fetched, outcome, modResult, sev,
                      sevModerate, response, logs, calls, tokenVars, nextId>>

\* A moderation request of some day is logged.
AppendLog(row) ==
    /\ Len(logs) < MaxStatLogs
    /\ logs' = Append(logs, row)
    /\ UNCHANGED <<env, rules, req, content, pc, fetched, outcome, modResult, sev,
                   sevModerate, response, calls, tokenVars, adminVars>>

\* Requests for the statistics: without a header, with the key, with another.
StatsRequests ==
    {a \in AdminRequests :
        a.json /\ a.authHeader \in {<<>>, <<"Bearer", "K">>, <<"Bearer", "W">>}}

InitStats ==
    /\ env \in [supabase : BOOLEAN, openai : {TRUE}, jwtSecret : {TRUE},
                masterApiKey : {<<"K">>}]
    /\ rules = <<>>
    /\ req = NoReq
    /\ content = NoContent
    /\ pc = "idle"
    /\ fetched = NoFetch
    /\ outcome = NoOverride
    /\ modResult = NoResult
    /\ sev = NoSev
    /\ sevModerate = NoSevModerate
    /\ response = NoResponse
    /\ logs = <<>>
    /\ Quiet

NextStats ==
    \/ \E row \in StatLogRows : AppendLog(row)
    \/ \E a \in StatsRequests :
          \E date \in BodiesRead(a, Days \cup {"not-a-date", NULL}, NULL) :
             \E dbLogs \in AnswersRead(a, TRUE, {"ok", "dbError", "thrown"}) :
                \E dbUpsert \in AnswersRead(a, dbLogs = "ok", {"ok", "dbError", "thrown"}) :
                   ComputeDailyStats(a, date, dbLogs, dbUpsert)

SpecStats == InitStats /\ [][NextStats]_vars

\* ===================================================================== claims
MinOf(S) == CHOOSE x \in S : \A y \in S : x <= y

\* Positions of the rules of one type that match the request's content.
MatchingOfType(ty) ==
    {i \in 1..Len(rules) : rules[i].type = ty /\ RuleEval(rules[i], content) = "match"}

\* C1: when a whitelist rule matches, the result is the first matching whitelist
\* rule in list order with its action_override, or 'approve' when that is null,
\* whatever blacklist rules match before or after it.
C1_WhitelistPriority ==
    pc = "output" /\ MatchingOfType("whitelist") # {} =>
        LET w == rules[MinOf(MatchingOfType("whitelist"))]
        IN /\ outcome.ruleMatched = w
           /\ outcome.actionOverride =
                 IF w.action_override = NULL THEN "approve" ELSE w.action_override

\* A matching whitelist rule with a matching blacklist rule before and after it.
C1_Witness ==
    /\ pc = "output"
    /\ \E i, j, k \in 1..Len(rules) :
          /\ i < j /\ j < k
          /\ i \in MatchingOfType("blacklist")
          /\ k \in MatchingOfType("blacklist")
          /\ j = MinOf(MatchingOfType("whitelist") \cup {j})
          /\ j \in MatchingOfType("whitelist")
          /\ outcome.ruleMatched = rules[j]

\* C2: when no whitelist rule matches and a blacklist rule does, the result is
\* the FIRST matching blacklist rule in list order with its action_override, or
\* 'block' when that is null.
C2_FirstBlacklistWins ==
    pc = "output" /\ MatchingOfType("whitelist") = {}
                  /\ MatchingOfType("blacklist") # {} =>
        LET b == rules[MinOf(MatchingOfType("blacklist"))]
        IN /\ outcome.ruleMatched = b
           /\ outcome.actionOverride =
                 IF b.action_override = NULL THEN "block" ELSE b.action_override

\* The list without the regex rules whose term, as the scan compiles it, does
\* not compile.
IsBrokenRegex(r) ==
    r.is_regex /\ ~RegExpCompiles(IF r.case_sensitive THEN r.term ELSE ToLowerCase(r.term))
CompilingRules(list) == SelectSeq(list, LAMBDA r : ~IsBrokenRegex(r))

\* C9: a list with regex rules that do not compile resolves exactly as the
\* same list with those rules removed; the rules after a broken one are still
\* evaluated.
C9_BrokenRegexSkipped ==
    pc = "output" => outcome = applyCustomRules(CompilingRules(rules), content)

\* A broken regex rule stands before the rule that decides.
C9_Witness ==
    /\ pc = "output"
    /\ \E i, j \in 1..Len(rules) :
          /\ i < j
          /\ IsBrokenRegex(rules[i])
          /\ outcome.ruleMatched = rules[j]

\* Substring containment, character by character, with or without case folding.
ContainsAt(text, term, off, fold) ==
    \A k \in 1..Len(term) :
        IF fold THEN LowerChar(text[off + k]) = LowerChar(term[k])
        ELSE text[off + k] = term[k]

LiteralReference(rule, text) ==
    \E off \in 0..(Len(text) - Len(rule.term)) :
        ContainsAt(text, rule.term, off, ~rule.case_sensitive)

\* C10: a non-regex rule matches iff the text contains the term, compared
\* lower-cased when case_sensitive is false and exactly when it is true; term
\* 'foo' matches 'this has FOO in it' case-insensitively and not case-sensitively.
C10_LiteralMatching ==
    pc = "output" /\ ~rules[1].is_regex =>
        /\ (outcome.ruleMatched = rules[1]) <=> LiteralReference(rules[1], content)
        /\ (outcome = NoOverride) <=> ~LiteralReference(rules[1], content)
        /\ rules[1].term = ScenarioTerm /\ content = ScenarioText =>
              (outcome.ruleMatched = rules[1]) <=> ~rules[1].case_sensitive

\* The scenario: 'foo', case-insensitive, on 'this has FOO in it'.
C10_Witness ==
    /\ pc = "output"
    /\ rules[1].term = ScenarioTerm
    /\ ~rules[1].is_regex
    /\ ~rules[1].case_sensitive
    /\ content = ScenarioText
    /\ outcome.ruleMatched = rules[1]
    /\ outcome.actionOverride = "block"

\* C4: a flagged result whose score mapping is absent or empty gets severity
\* 'unknown' and action 'flagged_unknown_severity'.
C4_AbsentOrEmptyScoresUnknown ==
    pc = "output" /\ modResult.flagged
                  /\ (~modResult.category_scores.present
                      \/ DOMAIN modResult.category_scores.map = {}) =>
        /\ sev.severity = "unknown"
        /\ sev.determinedAction = "flagged_unknown_severity"

\* C5: an unflagged result gets severity 'low', action 'approve' and
\* flagged = false, whatever its scores.
C5_UnflaggedApprove ==
    pc = "output" /\ ~modResult.flagged =>
        /\ sev.severity = "low"
        /\ sev.determinedAction = "approve"
        /\ sev.action = FALSE

Score(m, c) == IF c \in DOMAIN m THEN m[c] ELSE -1

SomeHighAbove80(m) ==
    Score(m, "sexual") > 80 \/ Score(m, "hate") > 80
        \/ Score(m, "violence") > 80 \/ Score(m, "self-harm") > 80

SomeAbove50(m) ==
    Score(m, "sexual") > 50 \/ Score(m, "hate") > 50 \/ Score(m, "harassment") > 50
        \/ Score(m, "violence") > 50 \/ Score(m, "self-harm") > 50

\* C6: a flagged result with sexual, hate, violence or self-harm above 0.8 is
\* 'high'/'block', whatever else exceeds 0.5; harassment above 0.8 alone is
\* never 'high'.
C6_HighSeverity ==
    pc = "output" /\ modResult.flagged /\ modResult.category_scores.present =>
        LET m == modResult.category_scores.map
        IN /\ SomeHighAbove80(m) =>
                sev.severity = "high" /\ sev.determinedAction = "block"
           /\ ~SomeHighAbove80(m) /\ Score(m, "harassment") > 80 =>
                sev.severity # "high"

\* hate above 0.8 together with harassment above 0.5.
C6_Witness ==
    /\ pc = "output"
    /\ modResult.flagged
    /\ modResult.category_scores.present
    /\ Score(modResult.category_scores.map, "hate") = 81
    /\ Score(modResult.category_scores.map, "harassment") = 51
    /\ sev.severity = "high"

\* C7: with no high-tier category above 0.8, a flagged result is
\* 'medium'/'manual_review' when any of the five categories is above 0.5 and
\* 'low'/'warn' otherwise, in both determineActionAndSeverity functions
\* (the severity alone is compared for moderate/route.ts).
C7_MediumAndLowTiers ==
    pc = "output" /\ modResult.flagged =>
        /\ modResult.category_scores.present
             /\ ~SomeHighAbove80(modResult.category_scores.map) =>
                IF SomeAbove50(modResult.category_scores.map)
                THEN sev.severity = "medium" /\ sev.determinedAction = "manual_review"
                ELSE sev.severity = "low" /\ sev.determinedAction = "warn"
        /\ modResult.scores.present /\ ~SomeHighAbove80(modResult.scores.map) =>
                IF SomeAbove50(modResult.scores.map)
                THEN sevModerate.severity = "medium"
                ELSE sevModerate.severity = "low"

\* The claim of C7 for content-moderation/route.ts alone.
C7_ContentModerationTiers ==
    pc = "output" /\ modResult.flagged /\ modResult.category_scores.present
                  /\ ~SomeHighAbove80(modResult.category_scores.map) =>
        IF SomeAbove50(modResult.category_scores.map)
        THEN sev.severity = "medium" /\ sev.determinedAction = "manual_review"
        ELSE sev.severity = "low" /\ sev.determinedAction = "warn"

HighestOf(m, tier) == MinOf({x \in {Score(m, c) : c \in tier} :
                               \A c \in tier : Score(m, c) <= x})

\* C8: a flagged result whose highest high-tier score is exactly 0.8 is
\* 'medium', not 'high'; one whose highest score is exactly 0.5 is 'low'/'warn',
\* not 'medium'.
C8_StrictThresholds ==
    pc = "output" /\ modResult.flagged /\ modResult.category_scores.present =>
        LET m == modResult.category_scores.map
        IN /\ HighestOf(m, {"sexual", "hate", "violence", "self-harm"}) = 80 =>
                sev.severity = "medium" /\ sev.determinedAction = "manual_review"
           /\ HighestOf(m, Categories) = 50 =>
                sev.severity = "low" /\ sev.determinedAction = "warn"

\* A highest high-tier score of exactly 0.8 with nothing else above it.
C8_Witness ==
    /\ pc = "output"
    /\ modResult.flagged
    /\ modResult.category_scores.present
    /\ HighestOf(modResult.category_scores.map, Categories) = 80
    /\ Score(modResult.category_scores.map, "violence") = 80
    /\ sev.severity = "medium"

\* C3: a decision built from a controlling rule has severity 'custom_rule', the
\* resolved rule action, no categories, no scores, the rule's id as
\* matched_rule_id, and flagged = (action is not approve); a whitelist rule
\* resolving to 'approve' gives flagged = false.
C3_RuleDecision ==
    response.status = 200 /\ outcome.ruleMatched # NoRule =>
        /\ response.severity = "custom_rule"
        /\ response.action = outcome.actionOverride
        /\ response.categories = {}
        /\ response.scores = Obj(EmptyMap)
        /\ response.matched_rule_id = outcome.ruleMatched.id
        /\ response.flagged = (response.action # "approve")

\* new RegExp(term, 'i').test(text): the term as authored, the text as sent.
RegexReference(rule, text) ==
    /\ RegExpCompiles(rule.term)
    /\ RegExpTest(NewRegExp(rule.term), TRUE, text)

\* C11: a regex rule with case_sensitive = false matches exactly when its term,
\* compiled as authored with the case-insensitive flag, is found in the
\* original text; this includes terms with upper-case escape classes.
C11_RegexFoldedByFlag ==
    pc = "output" /\ rules[1].is_regex /\ ~rules[1].case_sensitive =>
        (outcome.ruleMatched = rules[1]) <=> RegexReference(rules[1], content)

\* The request in flight is for /api/content-moderation, passed authentication
\* and validation, and applyCustomRules has returned.
Resolved ==
    /\ req.path = "/api/content-moderation"
    /\ Gate(req, content) = NoResponse
    /\ pc \in {"classifier", "log", "done"}

NoRuleMatches(list, text) == \A i \in 1..Len(list) : RuleEval(list[i], text) # "match"

\* C12 as stated: the classifier is called exactly when rule resolution returned
\* no controlling rule.
C12_ClassifierIffNoRule ==
    Resolved => (calls.classifier = 1 <=> outcome.ruleMatched = NoRule)

\* C12: for an authenticated request with valid content the classifier is
\* called (once) exactly when rule resolution returned no controlling rule and
\* the OpenAI client is configured; without the client and without a
\* controlling rule the request ends with 500 'server_error' and no call. When
\* no rule matches (also for an empty list) resolution returns a null rule and
\* a null action, and when a rule controls the classifier is never called.
C12_ClassifierIffNoRuleAndClient ==
    Resolved =>
        /\ calls.classifier = IF outcome.ruleMatched = NoRule /\ env.openai THEN 1 ELSE 0
        /\ outcome.ruleMatched = NoRule /\ ~env.openai =>
              response = ErrorResponse(500, "server_error")
        /\ (outcome.ruleMatched = NoRule) <=> (outcome.actionOverride = NULL)
        /\ fetched.error = "none" /\ NoRuleMatches(fetched.data, content) =>
              outcome = NoOverride

\* Rules were fetched, none matched, and the classifier decided.
C12_Witness ==
    /\ Resolved
    /\ pc = "done"
    /\ Len(fetched.data) > 0
    /\ outcome = NoOverride
    /\ calls.classifier = 1
    /\ response.status = 200

\* C13: in every decision returned by POST /api/content-moderation and in every
\* row of moderation_logs, the rule id is non-null iff severity is 'custom_rule'.
C13_RuleIdIffCustomRule ==
    /\ req.path = "/api/content-moderation" /\ response.status = 200 =>
          (response.matched_rule_id # 0 <=> response.severity = "custom_rule")
    /\ \A i \in 1..Len(logs) :
          logs[i].custom_rule_id # 0 <=> logs[i].severity = "custom_rule"

\* A rule decision was returned and logged with the rule's id.
C13_Witness ==
    /\ req.path = "/api/content-moderation"
    /\ response.status = 200
    /\ response.severity = "custom_rule"
    /\ response.matched_rule_id # 0
    /\ Len(logs) > 0
    /\ logs[Len(logs)].custom_rule_id = response.matched_rule_id

\* The request in flight passed authentication and validation, no rule
\* controlled it, and its classifier call failed or could not be made.
ClassifierFailed ==
    /\ req.path \in Paths
    /\ Gate(req, content) = NoResponse
    /\ pc = "done"
    /\ outcome.ruleMatched = NoRule
    /\ calls.failed \/ ~env.openai

\* C14: when no rule controls and the classifier call fails or its client is
\* not configured, the request ends with status 500 and a body holding only an
\* error, and the request inserts no row into moderation_logs.
C14_ClassifierFailureNoDecision ==
    ClassifierFailed =>
        /\ response.status = 500
        /\ DOMAIN response = {"status", "error"}
        /\ calls.inserts = 0

\* The classifier call of a content-moderation request threw.
C14_Witness ==
    /\ ClassifierFailed
    /\ req.path = "/api/content-moderation"
    /\ calls.classifier = 1
    /\ calls.failed
    /\ response = ErrorResponse(500, "openai_error")

\* The table as .order('created_at', { ascending: false }) returns it.
NewestFirst(t) == [i \in 1..Len(t) |-> t[Len(t) + 1 - i]]

\* C15: the list scanned by applyCustomRules is the stored table newest row
\* first, so the rule and the action of a resolution are those of the scan of
\* that one list, whenever the same text meets the same stored rules.
C15_DeterministicRuleOrder ==
    /\ pc = "scan" /\ fetched.error = "none" => fetched.data = NewestFirst(rules)
    /\ Resolved /\ calls.store = 1 /\ fetched.error = "none" =>
          outcome = applyCustomRules(NewestFirst(rules), content)

\* The request's outcome as applyCustomRules computes it from what its select
\* answered.
ScanOfFetched ==
    IF fetched.error # "none" THEN NoOverride ELSE applyCustomRules(fetched.data, content)

\* C16: the scan of a request reads the rule store exactly once and its outcome
\* is the scan of the list that read returned, whatever rules are created or
\* deleted after the read.
C16_SnapshotConsistency ==
    Resolved =>
        /\ calls.store = IF env.supabase THEN 1 ELSE 0
        /\ outcome = ScanOfFetched

\* A rule was created or deleted after the request's read: the outcome is not
\* the scan of the stored rules in any order.
C16_Witness ==
    /\ Resolved
    /\ calls.store = 1
    /\ fetched.error = "none"
    /\ outcome = ScanOfFetched
    /\ \A list \in Orders(rules) : applyCustomRules(list, content) # outcome

\* C17: a request to /api/moderate whose token is missing, invalid or expired
\* is answered with status 403.
C17_TokenFailureForbidden ==
    (/\ req.path = "/api/moderate"
     /\ pc = "done"
     /\ req.authHeader # "bearer" \/ ~JwtVerify(req.token, now))
    => response.status = 403

\* Whatever order the rules are read in, the scan of the stored rules ends on a
\* blacklist rule.
BlacklistControls(text) ==
    \A list \in Orders(rules) : applyCustomRules(list, text).ruleMatched.type = "blacklist"

\* C19: a text sent to /api/moderate that a stored blacklist rule controls is
\* answered as /api/content-moderation answers it: flagged, with severity
\* 'custom_rule'.
C19_ModerateAppliesRules ==
    (/\ req.path = "/api/moderate"
     /\ pc = "done"
     /\ response.status = 200
     /\ BlacklistControls(content))
    => (response.flagged /\ response.severity = "custom_rule")

\* The token request carries the documented fields, a registered client_id and
\* its secret, and the server is configured.
DocumentedTokenRequest ==
    /\ tokenReq.json
    /\ tokenReq.grant_type = "undefined"
    /\ \E c \in clients : /\ c.client_id = tokenReq.client_id
                          /\ BcryptCompare(tokenReq.client_secret, c.client_secret_hash)
    /\ env.jwtSecret
    /\ env.supabase

\* C18: a token request with the documented fields, a registered client_id and
\* its matching client_secret is answered with 200, an access_token and its
\* expiration time.
C18_DocumentedTokenRequest ==
    DocumentedTokenRequest =>
        /\ tokenResponse.status = 200
        /\ DOMAIN tokenResponse = {"status", "access_token", "token_type", "expires_in"}

\* The request in flight presents a token that /api/token issued.
PresentsIssuedToken ==
    /\ req.path \in Paths
    /\ req.authHeader = "bearer"
    /\ req.token.signed

Rejected == pc = "done" /\ response = ErrorResponse(401, "unauthorized")

C21_ScopeEnforced ==
    (/\ PresentsIssuedToken
     /\ calls.at < req.token.exp
     /\ ~Truthy(req.token.client_id) \/ req.token.scope # "moderate_content")
    => /\ pc = "done" => response = ErrorResponse(403, "forbidden")
       /\ calls.store = 0
       /\ calls.classifier = 0
       /\ calls.inserts = 0

\* A row of moderation_rules as the rules endpoint promises to store it.
WellFormedRule(rule) ==
    /\ rule.term # <<>>
    /\ rule.type \in {"blacklist", "whitelist"}
    /\ rule.is_regex \in BOOLEAN
    /\ rule.case_sensitive \in BOOLEAN
    /\ rule.action_override \in AllowedOverrides \cup {NULL}

\* The body of a rule-creation request asks for a well-formed rule.
WellFormedBody(b) ==
    /\ b.term # <<>>
    /\ b.type \in {"blacklist", "whitelist"}
    /\ IsBooleanFlag(b.is_regex)
    /\ IsBooleanFlag(b.case_sensitive)
    /\ b.action_override \in AllowedOverrides \cup {NULL}

\* C22: every stored rule has a non-empty term, a type of blacklist or
\* whitelist, boolean is_regex and case_sensitive and an action_override that is
\* block, approve, manual_review, warn or null; an authorized rule-creation
\* request whose body violates this is answered 400 and inserts nothing.
C22_StoredRulesWellFormed ==
    /\ \A i \in 1..Len(rules) : WellFormedRule(rules[i])
    /\ (/\ adminReq.op = "POST" /\ adminReq.json
        /\ Authorized(adminReq)
        /\ ~WellFormedBody(adminReq.body))
       => adminResponse.status = 400 /\ adminReq.statements = 0

\* The status of the first check of a moderation request that fails, in the
\* order header, server secret, token, JSON body, content; 0 when all pass.
FirstFailingCheck ==
    IF req.authHeader # "bearer" THEN 401
    ELSE IF ~env.jwtSecret THEN 500
    ELSE IF ~(req.token.signed /\ calls.at < req.token.exp) THEN 401
    ELSE IF ~req.json THEN 400
    ELSE IF content = <<>> THEN 400
    ELSE 0

DecidedAction == IF req.path = "/api/moderate" THEN sevModerate.action ELSE sev.determinedAction

DecidedSeverity == IF req.path = "/api/moderate" THEN sevModerate.severity ELSE sev.severity

DecidedRuleId == IF req.path = "/api/moderate" THEN 0 ELSE outcome.ruleMatched.id

\* C24: a request with a decision attempts one insert into moderation_logs
\* (none when the database client is unavailable) before it answers; whatever
\* the insert does the answer is 200 with the decision, and an inserted row
\* carries the flagged, action, severity and rule id of the response.
C24_LoggingNeverAlters ==
    /\ pc \in {"log", "logModerate"} => response = NoResponse /\ calls.attempts = 0
    /\ (pc = "done" /\ calls.attempts > 0) => response.status = 200
    /\ (pc = "done" /\ response.status = 200)
       => /\ calls.attempts = IF env.supabase THEN 1 ELSE 0
          /\ response.flagged = modResult.flagged
          /\ response.action = DecidedAction
          /\ response.severity = DecidedSeverity
          /\ req.path = "/api/content-moderation" => response.matched_rule_id = DecidedRuleId
          /\ calls.inserts = 1
             => /\ logs # <<>>
                /\ logs[Len(logs)].flagged = response.flagged
                /\ logs[Len(logs)].action = response.action
                /\ logs[Len(logs)].severity = response.severity
                /\ logs[Len(logs)].custom_rule_id = DecidedRuleId

\* A flagged decision whose insert failed and which was answered all the same.
C24_Witness ==
    /\ pc = "done"
    /\ response.status = 200
    /\ response.flagged
    /\ calls.attempts = 1
    /\ calls.inserts = 0

\* The rows of api_clients the token request names with the secret it supplies.
MatchingClients ==
    {c \in clients : /\ c.client_id = tokenReq.client_id
                     /\ c.client_secret_hash = Hash(tokenReq.client_secret)}

PresentsMasterKey ==
    /\ env.masterApiKey \notin {<<>>, <<"">>}
    /\ adminReq.authHeader = <<"Bearer">> \o env.masterApiKey

\* C26: an administration request whose Authorization header is not 'Bearer '
\* followed by exactly the configured MASTER_API_KEY is answered 401 and issues
\* no database statement; without a configured key every request is rejected.
C26_AdminFailsClosed ==
    (adminReq.op # "none" /\ ~PresentsMasterKey)
    => adminResponse.status = 401 /\ adminReq.statements = 0

\* C27: an authorized DELETE of a rule or of a client that the database carried
\* out is answered 200 when it removed a row and 404 when no row matched.
C27_DeleteReports ==
    (/\ adminReq.op \in {"DELETE", "DELETE_CLIENT"}
     /\ adminReq.statements = 1
     /\ adminResponse.status # 500)
    => /\ adminResponse.status = 200 <=> adminReq.removed = 1
       /\ adminResponse.status = 404 <=> adminReq.removed = 0

\* The request in flight passed the checks of /api/content-moderation and its
\* rule store is unavailable or answered the select with an error or a throw.
StoreFailed ==
    /\ req.path = "/api/content-moderation"
    /\ FirstFailingCheck = 0
    /\ ~env.supabase \/ fetched.error # "none"

\* C28: when the rule store fails, applyCustomRules returns no controlling rule
\* and the request goes on to the classifier: its decision never has severity
\* 'custom_rule' or a rule id, and it is answered with an error only when the
\* classifier is unavailable or fails.
C28_StoreFailureFallsThrough ==
    StoreFailed
    => /\ outcome = NoOverride
       /\ sev.severity # "custom_rule"
       /\ pc \notin {"select", "scan"} => calls.classifier = IF env.openai THEN 1 ELSE 0
       /\ pc = "done"
          => IF env.openai /\ ~calls.failed
             THEN /\ response.status = 200
                  /\ response.severity # "custom_rule"
                  /\ ~response.custom_rule_applied
                  /\ response.matched_rule_id = 0
             ELSE response.status = 500

\* The select failed while a blacklist rule for the content is stored, and the
\* request was answered from the classifier.
C28_Witness ==
    /\ StoreFailed
    /\ fetched.error = "dbError"
    /\ \E i \in 1..Len(rules) : rules[i].type = "blacklist" /\ rules[i].term = content
    /\ pc = "done"
    /\ response.status = 200
    /\ calls.classifier = 1

\* C29: a request to /api/moderate whose classifier call answered with a
\* flagged result ends with 200, action 'flagged' and a severity of low, medium
\* or high.
C29_ModerateAnswersFlagged ==
    (/\ req.path = "/api/moderate"
     /\ pc = "done"
     /\ calls.classifier = 1
     /\ ~calls.failed
     /\ modResult.flagged)
    => /\ response.status = 200
       /\ response.action = "flagged"
       /\ response.severity \in {"low", "medium", "high"}

\* The rows of moderation_logs of a date.
LogsOfDate(date) == {i \in 1..Len(logs) : logs[i].day = date}

\* A row of daily_stats is consistent: flagged within total, and approval_rate
\* the quotient (total - flagged) / total, or 1 when total is 0.
ConsistentStats(row) ==
    /\ 0 <= row.flagged_requests
    /\ row.flagged_requests <= row.total_requests
    /\ row.approval_rate[2] > 0
    /\ IF row.total_requests = 0
       THEN row.approval_rate[1] = row.approval_rate[2]
       ELSE row.approval_rate[1] * row.total_requests
               = (row.total_requests - row.flagged_requests) * row.approval_rate[2]

OneRowPerDate ==
    \A i, j \in 1..Len(dailyStats) : dailyStats[i].date = dailyStats[j].date => i = j

\* The stored row of the date of the last computation counts the logs as they
\* are now.
StoredRowCurrent ==
    \E i \in 1..Len(dailyStats) :
       /\ dailyStats[i].date = adminReq.date
       /\ dailyStats[i].total_requests = Cardinality(LogsOfDate(adminReq.date))
       /\ dailyStats[i].flagged_requests
             = Cardinality({k \in LogsOfDate(adminReq.date) : logs[k].flagged})

\* C30: daily_stats holds at most one row per date, every row has
\* 0 <= flagged_requests <= total_requests and approval_rate equal to
\* (total_requests - flagged_requests) / total_requests (1 when there are no
\* requests), and computing again a date whose logs did not change leaves the
\* table as it is.
C30_DailyStats ==
    /\ [](OneRowPerDate /\ \A i \in 1..Len(dailyStats) : ConsistentStats(dailyStats[i]))
    /\ [][(/\ adminReq.op = "STATS" /\ adminResponse.status = 200
           /\ StoredRowCurrent
           /\ logs' = logs
           /\ adminReq'.op = "STATS" /\ adminReq'.date = adminReq.date)
          => dailyStats' = dailyStats]_vars

\* A date with one flagged log among two was computed twice over.
C30_Witness ==
    /\ adminReq.op = "STATS"
    /\ adminResponse.status = 200
    /\ Len(dailyStats) = 2
    /\ \E i \in 1..Len(dailyStats) :
          /\ dailyStats[i].date = adminReq.date
          /\ dailyStats[i].total_requests = 2
          /\ dailyStats[i].flagged_requests = 1
          /\ dailyStats[i].approval_rate = <<1, 2>>
====
